---- MODULE Spec2Model ----
(***************************************************************************)
(* Model of solomdb.py: the MDB line reader (MDBLineReader.handle_line),   *)
(* the payment poll thread (payment_thread), the refund thread             *)
(* (refund_thread) and the session fields of SoloMDB they share.           *)
(*                                                                         *)
(* Threads interleave at the shared reads and writes: a poll thread is cut *)
(* at its gateway call, at the store of transaction_code, at the test of   *)
(* mdb_status/should_cancel, at write_line, at the start of the refund     *)
(* thread and at clear_payment_status.  handle_line is one step per device *)
(* line, but for 'c,STATUS,IDLE', which is cut between its test of         *)
(* payment_uuid and its write of should_cancel; one refund call with its   *)
(* handling is one step.                                                   *)
(***************************************************************************)
EXTENDS Integers, FiniteSets, Sequences, TLC

\* ---------------------------------------------------------------- bounds
\* uuid4 values are fresh for ever; the model creates at most MaxPayments.
MaxPayments == 2
\* refund_thread retries without a cap; the model follows MaxRefundCalls calls.
MaxRefundCalls == 2
\* The amounts whose rounding is followed one by one.
MaxThousandths == 30

\* Python's None, for payment_uuid, transaction_code and vend_amount.
None == 0

\* Device amounts, in thousandths of the currency unit (5.000 and 3.005).
Amounts == {5000, 3005}
\* Every amount from 0.000 to MaxThousandths thousandths, and the two above.
AnyAmounts == (0..MaxThousandths) \cup Amounts
\* The price the device asks for the k-th payment it opens: the prices
\* alternate, so that a payment follows one of another price; a line that
\* re-announces a vend carries either price.
Price(k) == IF k % 2 = 1 THEN 5000 ELSE 3005

Payments == 1..MaxPayments
\* One payment_thread is started per created payment, and each payment_thread
\* starts at most one refund_thread: both are indexed by the payment they were
\* started for.
Threads == Payments

Terminal == {"FAILED", "CANCELLED", "SUCCESSFUL"}

VARIABLES
    mdb_status,        \* SoloMDB.mdb_status
    payment_uuid,      \* SoloMDB.payment_uuid (None or a payment)
    transaction_code,  \* SoloMDB.transaction_code (None or a gateway code)
    vend_amount,       \* SoloMDB.vend_amount (None or an amount)
    should_cancel,     \* SoloMDB.should_cancel
    readerAlive,       \* the reader thread has not been ended by an exception
    readerPc,          \* the reader's place: "line" (before its next line) or
                       \* "idle" (in 'c,STATUS,IDLE', between lines 251 and 252)
    created,           \* number of uuid4 payments stored so far
    gw,                \* gateway: payment -> [status, value] ("NONE" = unknown)
    poll,              \* payment_thread per thread: pc and its locals
    refund,            \* refund_thread per thread: pc, payment, calls made
    wire,              \* the line the last step wrote to the device, if any
    hist               \* history: calls since the last clearing, cancellations

vars == << mdb_status, payment_uuid, transaction_code, vend_amount, should_cancel,
           readerAlive, readerPc, created, gw, poll, refund, wire, hist >>

session == << payment_uuid, transaction_code, vend_amount, should_cancel >>
reader == << readerAlive, readerPc >>
\* The reader thread is running and is about to handle its next line.
Reading == readerAlive /\ readerPc = "line"

\* ------------------------------------------------------- pure functions
\* start_payment: int(amount.quantize(Decimal('0.01'), ROUND_HALF_UP) * 100).
\* quantize keeps the hundredths and drops the third decimal, rounding up
\* when it is 5 or more (half-even, decimal's default, would round a 5 up
\* only to an even hundredth); times 100 the result is a whole number.
MinorUnitsHalfEven(amount) ==
    LET hundredths == amount \div 10
        third == amount % 10
    IN  IF third > 5 \/ (third = 5 /\ hundredths % 2 = 1)
        THEN hundredths + 1 ELSE hundredths
MinorUnits(amount) ==
    LET hundredths == amount \div 10
        third == amount % 10
    IN  IF third >= 5 THEN hundredths + 1 ELSE hundredths

\* The gateway's transaction code of a payment (opaque, one per payment).
TxCode(p) == p

NoLine == [cmd |-> "", amount |-> None]

\* A payment_thread: its place, the uuid it queried last and the status it
\* was answered.  When it tests a SUCCESSFUL answer (line 192), vend records
\* that mdb_status was VEND and asked that a cancellation had been asked for
\* the payment since it was created.  A thread that has returned keeps its
\* place (approved, refunded, failed) and the uuid it acted on.
IdlePoll == [pc |-> "idle", uuid |-> None, status |-> "NONE",
             vend |-> FALSE, asked |-> FALSE]

\* A refund_thread: its place (refunded: line 216, moot: line 211), the
\* payment whose SUCCESSFUL answer started it, the calls it has made and the
\* outcome of the last one.
IdleRefund == [pc |-> "idle", resolved |-> None, calls |-> 0, last |-> "NONE"]

\* ------------------------------------------------------------- history
\* creates, polls: createPayment calls made and poll threads started since
\* the last clear_payment_status.  cancelled: the payments for which
\* 'c,STATUS,IDLE' was processed while they were outstanding.
InitHist == [creates |-> 0, polls |-> 0, cancelled |-> {}]

Init ==
    /\ mdb_status = "DISABLED"
    /\ payment_uuid = None
    /\ transaction_code = None
    /\ vend_amount = None
    /\ should_cancel = FALSE
    /\ readerAlive = TRUE
    /\ readerPc = "line"
    /\ created = 0
    /\ gw = [p \in Payments |-> [status |-> "NONE", value |-> 0]]
    /\ poll = [t \in Threads |-> IdlePoll]
    /\ refund = [t \in Threads |-> IdleRefund]
    /\ wire = NoLine
    /\ hist = InitHist

ClearHist(h) == [h EXCEPT !.creates = 0, !.polls = 0]

clear_payment_status ==
    /\ payment_uuid' = None
    /\ transaction_code' = None
    /\ should_cancel' = FALSE
    /\ UNCHANGED vend_amount

\* ------------------------------------------------ reader: handle_line
\* handle_line, 'c,STATUS,VEND,<amount>': the test that keeps a second charge
\* away (payment_uuid is not None).
OutstandingNever == FALSE
Outstanding == payment_uuid # None

\* Same price: Decimal(amount) == Decimal(vend_amount).
SamePriceNever(amount) == FALSE
SamePriceAlways(amount) == TRUE
SamePrice(amount) == amount = vend_amount

\* 'c,STATUS,VEND,<amount>' while a payment is outstanding: no charge; the
\* cancellation is withdrawn when the price is the stored one.
StatusVendOutstanding(amount) ==
    /\ Reading
    /\ Outstanding
    /\ mdb_status' = "VEND"
    /\ should_cancel' = IF SamePrice(amount) THEN FALSE ELSE should_cancel
    /\ wire' = NoLine
    /\ UNCHANGED << payment_uuid, transaction_code, vend_amount, reader,
                    created, gw, poll, refund, hist >>

\* 'c,STATUS,VEND,<amount>' with no payment outstanding: vend_amount is set,
\* start_payment posts the checkout and stores a fresh uuid, and a
\* payment_thread is started.
StatusVendCreate(amount) ==
    /\ Reading
    /\ ~Outstanding
    /\ created < MaxPayments
    /\ LET p == created + 1 IN
        /\ mdb_status' = "VEND"
        /\ vend_amount' = amount
        /\ payment_uuid' = p
        /\ created' = p
        /\ gw' = [gw EXCEPT ![p] = [status |-> "PENDING", value |-> MinorUnits(amount)]]
        /\ poll' = [poll EXCEPT ![p] = [IdlePoll EXCEPT !.pc = "query"]]
        /\ hist' = [hist EXCEPT !.creates = @ + 1, !.polls = @ + 1]
    /\ wire' = NoLine
    /\ UNCHANGED << transaction_code, should_cancel, reader, refund >>

\* The k-th payment is opened at Price(k).
StatusVendNew(amount) == amount = Price(created + 1) /\ StatusVendCreate(amount)

\* The same line when the checkout call fails: raise_for_status (or the
\* transport) raises out of handle_line, nothing is stored, no thread is
\* started, and the exception ends the reader thread.
StatusVendNewFails(amount) ==
    /\ Reading
    /\ ~Outstanding
    /\ amount = Price(created + 1)
    /\ mdb_status' = "VEND"
    /\ vend_amount' = amount
    /\ readerAlive' = FALSE
    /\ hist' = [hist EXCEPT !.creates = @ + 1]
    /\ wire' = NoLine
    /\ UNCHANGED << payment_uuid, transaction_code, should_cancel, readerPc,
                    created, gw, poll, refund >>

\* 'c,STATUS,IDLE', up to the test of line 251: mdb_status follows the
\* device, and a cancellation will be asked for if a payment is outstanding.
StatusIdleTest ==
    /\ Reading
    /\ mdb_status' = "IDLE"
    /\ readerPc' = IF payment_uuid # None THEN "idle" ELSE "line"
    /\ wire' = NoLine
    /\ UNCHANGED << session, readerAlive, created, gw, poll, refund, hist >>

\* 'c,STATUS,IDLE', line 252: should_cancel = True, whatever a poll thread
\* did to the session since the test.
StatusIdleSet(track) ==
    /\ readerAlive
    /\ readerPc = "idle"
    /\ should_cancel' = TRUE
    /\ readerPc' = "line"
    /\ hist' = IF payment_uuid = None \/ ~track THEN hist
               ELSE [hist EXCEPT !.cancelled = @ \cup {payment_uuid}]
    /\ wire' = NoLine
    /\ UNCHANGED << mdb_status, payment_uuid, transaction_code, vend_amount,
                    readerAlive, created, gw, poll, refund >>

\* 'c,STATUS,<other>': only mdb_status follows the device.
StatusOther ==
    /\ Reading
    /\ mdb_status' = "ENABLED"
    /\ wire' = NoLine
    /\ UNCHANGED << session, reader, created, gw, poll, refund, hist >>

\* 'c,VEND,SUCCESS': clear_payment_status, whatever the state of the payment.
VendSuccess ==
    /\ Reading
    /\ clear_payment_status
    /\ hist' = ClearHist(hist)
    /\ wire' = NoLine
    /\ UNCHANGED << mdb_status, reader, created, gw, poll, refund >>

\* 'c,ERR,...': the interface is reset with 'C,0'.
ErrClearing ==
    /\ Reading
    /\ clear_payment_status
    /\ wire' = [cmd |-> "C,0", amount |-> None]
    /\ UNCHANGED << mdb_status, reader, created, gw, poll, refund, hist >>
Err ==
    /\ Reading
    /\ wire' = [cmd |-> "C,0", amount |-> None]
    /\ UNCHANGED << mdb_status, session, reader, created, gw, poll, refund, hist >>

\* A line without a comma (data.split(',', 1) gives one part, the unpacking
\* of line 221 raises ValueError), 'c,STATUS' (payload[1] of line 234 raises
\* IndexError) or 'c,VEND' (payload[1] of line 254): the exception leaves
\* handle_line before anything is written, and ReaderThread.run ends its
\* loop on any exception of the protocol.
MalformedLine ==
    /\ Reading
    /\ readerAlive' = FALSE
    /\ wire' = NoLine
    /\ UNCHANGED << mdb_status, session, readerPc, created, gw, poll, refund, hist >>

\* 'c,STATUS,VEND' without an amount: mdb_status is written (line 234), then
\* payload[2] of line 237 raises IndexError.
StatusVendNoAmount ==
    /\ Reading
    /\ mdb_status' = "VEND"
    /\ readerAlive' = FALSE
    /\ wire' = NoLine
    /\ UNCHANGED << session, readerPc, created, gw, poll, refund, hist >>

\* ------------------------------------------------------------ gateway
\* The customer pays, the terminal fails or the checkout is cancelled.
GatewayResolve(p, status) ==
    /\ gw[p].status = "PENDING"
    /\ gw' = [gw EXCEPT ![p].status = status]
    /\ wire' = NoLine
    /\ UNCHANGED << mdb_status, session, reader, created, poll, refund, hist >>

\* ------------------------------------------------ poll: payment_thread
\* get_payment(self.solomdb.payment_uuid) answered: the uuid is read when
\* the call is made, whichever payment the thread was started for.
PollQueryAnswered(t) ==
    /\ poll[t].pc = "query"
    /\ payment_uuid # None
    /\ poll' = [poll EXCEPT ![t] = [IdlePoll EXCEPT
                                      !.pc = "store", !.uuid = payment_uuid,
                                      !.status = gw[payment_uuid].status]]
    /\ wire' = NoLine
    /\ UNCHANGED << mdb_status, session, reader, created, gw, refund, hist >>

\* get_payment raises HTTPError (non-2xx, or no transaction for the uuid):
\* logged, sleep, next iteration.
PollQueryHttpError(t) ==
    /\ poll[t].pc = "query"
    /\ wire' = NoLine
    /\ UNCHANGED << mdb_status, session, reader, created, gw, poll, refund, hist >>

\* get_payment raises something else (connection failure): only HTTPError
\* is caught, the thread ends.
PollQueryCrash(t) ==
    /\ poll[t].pc = "query"
    /\ poll' = [poll EXCEPT ![t].pc = "crashed"]
    /\ wire' = NoLine
    /\ UNCHANGED << mdb_status, session, reader, created, gw, refund, hist >>

\* data.get('transaction_code'), data.get('amount') of the answer.
RespCode(t) == TxCode(poll[t].uuid)
RespAmount(t) == gw[poll[t].uuid].value

\* self.solomdb.transaction_code = data.get('transaction_code')
PollStore(t) ==
    /\ poll[t].pc = "store"
    /\ transaction_code' = RespCode(t)
    /\ poll' = [poll EXCEPT ![t].pc = "match"]
    /\ wire' = NoLine
    /\ UNCHANGED << mdb_status, payment_uuid, vend_amount, should_cancel,
                    reader, created, gw, refund, hist >>

\* case 'PENDING': pass, sleep, next iteration.
PollPending(t) ==
    /\ poll[t].pc = "match"
    /\ poll[t].status = "PENDING"
    /\ poll' = [poll EXCEPT ![t] = [IdlePoll EXCEPT !.pc = "query"]]
    /\ wire' = NoLine
    /\ UNCHANGED << mdb_status, session, reader, created, gw, refund, hist >>

\* case 'FAILED' | 'CANCELLED': clear_payment_status, return.
PollFailed(t) ==
    /\ poll[t].pc = "match"
    /\ poll[t].status \in {"FAILED", "CANCELLED"}
    /\ clear_payment_status
    /\ poll' = [poll EXCEPT ![t].pc = "failed"]
    /\ hist' = ClearHist(hist)
    /\ wire' = NoLine
    /\ UNCHANGED << mdb_status, reader, created, gw, refund >>

\* case 'SUCCESSFUL': the test of line 192.
ShouldApproveIgnoringCancel == mdb_status = "VEND"
ShouldApprove == mdb_status = "VEND" /\ ~should_cancel

PollSuccessful(t, track) ==
    /\ poll[t].pc = "match"
    /\ poll[t].status = "SUCCESSFUL"
    /\ poll' = [poll EXCEPT
                  ![t].pc = IF ShouldApprove THEN "approve" ELSE "refund",
                  ![t].vend = track /\ mdb_status = "VEND",
                  ![t].asked = track /\ poll[t].uuid \in hist.cancelled]
    /\ wire' = NoLine
    /\ UNCHANGED << mdb_status, session, reader, created, gw, refund, hist >>

\* self.write_line(f'C,VEND,{payment_amount}'), return.
PollApprove(t) ==
    /\ poll[t].pc = "approve"
    /\ wire' = [cmd |-> "C,VEND", amount |-> RespAmount(t)]
    /\ poll' = [poll EXCEPT ![t].pc = "approved"]
    /\ UNCHANGED << mdb_status, session, reader, created, gw, refund, hist >>

\* Thread(target=self.refund_thread, args=[...]).start(); the argument is
\* only printed by refund_thread.
PollStartRefund(t) ==
    /\ poll[t].pc = "refund"
    /\ refund' = [refund EXCEPT ![t] = [IdleRefund EXCEPT
                                          !.pc = "call", !.resolved = poll[t].uuid]]
    /\ poll' = [poll EXCEPT ![t].pc = "clear"]
    /\ wire' = NoLine
    /\ UNCHANGED << mdb_status, session, reader, created, gw, hist >>

\* self.solomdb.clear_payment_status(), return.
PollClear(t) ==
    /\ poll[t].pc = "clear"
    /\ clear_payment_status
    /\ poll' = [poll EXCEPT ![t].pc = "refunded"]
    /\ hist' = ClearHist(hist)
    /\ wire' = NoLine
    /\ UNCHANGED << mdb_status, reader, created, gw, refund >>

\* ---------------------------------------------- refund: refund_thread
\* What the refund endpoint can answer for a transaction code: nothing can
\* be refunded under the code None; a paid transaction is refunded ("ok") or
\* was refunded before (409); any call can fail otherwise (another HTTP
\* status, or the 10 s timeout / a connection failure).
RefundOutcomes(code) ==
    IF code = None THEN {"http", "transport"}
    ELSE (IF gw[code].status = "SUCCESSFUL" THEN {"ok", "409"} ELSE {})
         \cup {"http", "transport"}

\* refund_thread's handling of one call: return on success, break on
\* HTTPError 409, sleep and retry on another HTTPError; any other exception
\* is not caught and ends the thread.
RefundAfterRetrying409(outcome) ==
    IF outcome = "ok" THEN "refunded"
    ELSE IF outcome = "transport" THEN "crashed" ELSE "call"
RefundAfter(outcome) ==
    IF outcome = "ok" THEN "refunded"
    ELSE IF outcome = "409" THEN "moot"
    ELSE IF outcome = "http" THEN "call" ELSE "crashed"

\* The code the call is made with: self.solomdb.transaction_code, read at
\* the call.
RefundTarget(r) == transaction_code

RefundCall(r, outcome) ==
    /\ refund[r].pc = "call"
    /\ refund[r].calls < MaxRefundCalls
    /\ outcome \in RefundOutcomes(RefundTarget(r))
    /\ refund' = [refund EXCEPT ![r].pc = RefundAfter(outcome),
                                ![r].calls = @ + 1,
                                ![r].last = outcome]
    /\ wire' = NoLine
    /\ UNCHANGED << mdb_status, session, reader, created, gw, poll, hist >>

\* --------------------------------------------------------------- Next
\* The history of cancellations (hist.cancelled, and the vend and asked
\* marks of a poll thread) is kept when track is TRUE: SpecHist keeps it,
\* Spec does not.  The program's steps are the same in both.
Reader(track) ==
    \/ \E a \in Amounts : StatusVendOutstanding(a)
    \/ \E a \in Amounts : StatusVendNew(a)
    \/ \E a \in Amounts : StatusVendNewFails(a)
    \/ StatusIdleTest
    \/ StatusIdleSet(track)
    \/ StatusOther
    \/ VendSuccess
    \/ Err
    \/ MalformedLine
    \/ StatusVendNoAmount

Gateway == \E p \in Payments, s \in Terminal : GatewayResolve(p, s)

Poll(t, track) ==
    \/ PollQueryAnswered(t)
    \/ PollQueryHttpError(t)
    \/ PollQueryCrash(t)
    \/ PollStore(t)
    \/ PollPending(t)
    \/ PollFailed(t)
    \/ PollSuccessful(t, track)
    \/ PollApprove(t)
    \/ PollStartRefund(t)
    \/ PollClear(t)

Refund(r) == \E o \in {"ok", "409", "http", "transport"} : RefundCall(r, o)

Next ==
    \/ Reader(FALSE)
    \/ Gateway
    \/ \E t \in Threads : Poll(t, FALSE)
    \/ \E r \in Threads : Refund(r)

Spec == Init /\ [][Next]_vars

NextHist ==
    \/ Reader(TRUE)
    \/ Gateway
    \/ \E t \in Threads : Poll(t, TRUE)
    \/ \E r \in Threads : Refund(r)

SpecHist == Init /\ [][NextHist]_vars

\* Without the failures of the transport and of the gateway's HTTP layer and
\* without malformed lines: every checkout is created and every query and
\* refund call is answered.
ReaderFair ==
    \/ \E a \in Amounts : StatusVendOutstanding(a)
    \/ \E a \in Amounts : StatusVendNew(a)
    \/ StatusIdleTest
    \/ StatusIdleSet(FALSE)
    \/ StatusOther
    \/ VendSuccess
    \/ Err

PollFair(t) ==
    \/ PollQueryAnswered(t)
    \/ PollStore(t)
    \/ PollPending(t)
    \/ PollFailed(t)
    \/ PollSuccessful(t, FALSE)
    \/ PollApprove(t)
    \/ PollStartRefund(t)
    \/ PollClear(t)

RefundFair(r) == \E o \in {"ok", "409"} : RefundCall(r, o)

NextFair ==
    \/ ReaderFair
    \/ Gateway
    \/ \E t \in Threads : PollFair(t)
    \/ \E r \in Threads : RefundFair(r)

\* The reader thread and every started thread keep running, and the gateway
\* resolves every payment.
FairSpec ==
    /\ Init
    /\ [][NextFair]_vars
    /\ WF_vars(ReaderFair)
    /\ WF_vars(Gateway)
    /\ \A t \in Threads : WF_vars(PollFair(t))
    /\ \A r \in Threads : WF_vars(RefundFair(r))

\* The reader alone, opening payments of any amount and closing them with
\* 'c,VEND,SUCCESS': what start_payment sends for each amount.
NextAmounts ==
    \/ \E a \in AnyAmounts : StatusVendCreate(a)
    \/ VendSuccess

SpecAmounts == Init /\ [][NextAmounts]_vars

\* ------------------------------------------------------------- claims
\* The poll threads that emitted a vend-approve on an answer for payment p,
\* and the refund threads started on an answer for p.
Approved(p) == {t \in Threads : poll[t].pc = "approved" /\ poll[t].uuid = p}
RefundStarted(p) == {r \in Threads : refund[r].pc # "idle" /\ refund[r].resolved = p}
Decided == {"approve", "approved", "refund", "clear", "refunded"}
Ended == {"refunded", "moot", "crashed"}

\* C1: between two clearings of the session, createPayment is called at most
\* once and at most one poll thread is started, however many STATUS,VEND
\* lines arrive while a payment is outstanding.
C1_CreateOncePerCycle == hist.creates <= 1 /\ hist.polls <= 1

\* C1 witness: a STATUS,VEND line was processed while the payment was
\* outstanding (the poll thread of the outstanding payment chose the refund
\* because the device was not in VEND or had cancelled, and the device is in
\* VEND and uncancelled again), and the payment is still the only one.
C1_Witness ==
    \E t \in Threads :
        /\ poll[t].pc = "refund"
        /\ poll[t].uuid = payment_uuid
        /\ mdb_status = "VEND" /\ ~should_cancel
        /\ hist.creates = 1

\* C2: the session is cleared at most once per payment attempt: a poll
\* thread that clears the session on the answer for a payment finds that
\* payment still outstanding (not cleared before).
C2_ClearedOnce ==
    [][\A t \in Threads :
          (poll[t].pc \in {"match", "clear"} /\ poll'[t].pc \in {"failed", "refunded"})
              => payment_uuid = poll[t].uuid]_vars

\* C3: every created payment is eventually cleared from the session.
C3_EventuallyCleared ==
    \A p \in Payments : (payment_uuid = p) ~> (payment_uuid # p)

\* C4 as claimed: once STATUS,IDLE was processed while a payment was
\* outstanding, no poll thread approves a vend on a SUCCESSFUL answer for it.
C4_CancelledNeverApproved ==
    \A t \in Threads : poll[t].asked => poll[t].pc \notin {"approve", "approved"}

\* C4 amended: a poll thread that tests a SUCCESSFUL answer while
\* should_cancel is true takes the refund branch: it starts its refund
\* thread, clears the session and returns, and writes no vend-approve.
C4_CancelAtTestRefunds ==
    [][\A t \in Threads :
          /\ (/\ poll[t].pc = "match" /\ poll[t].status = "SUCCESSFUL"
              /\ should_cancel /\ poll'[t] # poll[t])
                 => (poll'[t].pc = "refund" /\ wire'.cmd # "C,VEND")
          /\ (poll[t].pc = "refund" /\ poll'[t] # poll[t])
                 => (/\ poll'[t].pc = "clear" /\ refund'[t].pc = "call"
                     /\ refund'[t].resolved = poll[t].uuid /\ wire'.cmd # "C,VEND")
          /\ (poll[t].pc = "clear" /\ poll'[t] # poll[t])
                 => (poll'[t].pc = "refunded" /\ wire'.cmd # "C,VEND")]_vars

\* C4 witness: a poll thread that found the device in VEND took the refund
\* branch (so should_cancel was true at its test), after a cancellation had
\* been asked, and its refund thread was started.
C4_Witness ==
    \E t \in Threads :
        /\ poll[t].pc = "refunded" /\ poll[t].vend /\ poll[t].asked
        /\ refund[t].pc # "idle"

\* C5: when a poll thread finds a payment SUCCESSFUL with the device in VEND
\* and no cancellation ever asked for that payment, the payment gets a
\* vend-approve from it, exactly one in all, and no refund thread.
C5_CleanVendApprovedOnce ==
    \A t \in Threads :
        (poll[t].pc \in Decided /\ poll[t].vend /\ ~poll[t].asked)
            => /\ poll[t].pc \in {"approve", "approved"}
               /\ Cardinality(Approved(poll[t].uuid)) <= 1
               /\ RefundStarted(poll[t].uuid) = {}

\* C6: a vend-approve is written in a state in which the device is in VEND
\* and has not cancelled.
C6_ApproveIsFresh ==
    [][\A t \in Threads :
          (poll[t].pc = "approve" /\ poll'[t].pc = "approved")
              => (mdb_status = "VEND" /\ ~should_cancel)]_vars

\* C7: a payment gets at most one vend-approve, and never a vend-approve
\* and a refund.
C7_NoDoubleVend ==
    \A p \in Payments :
        /\ Cardinality(Approved(p)) <= 1
        /\ (Approved(p) # {} => RefundStarted(p) = {})

\* C8: every refund call of a refund thread is made with the transaction
\* code of the payment whose SUCCESSFUL answer started the thread.
C8_RefundTargetsResolved ==
    [][\A r \in Threads :
          refund'[r].calls > refund[r].calls
              => transaction_code = TxCode(refund[r].resolved)]_vars

\* C9: a refund call answered 409 ends the refund thread at once, and an
\* ended thread calls no more: a first call answered 409 is the only call.
C9_Stops409 ==
    [][\A r \in Threads :
          /\ (refund'[r].calls > refund[r].calls /\ refund'[r].last = "409")
                 => refund'[r].pc = "moot"
          /\ (refund[r].calls = 0 /\ refund'[r].last = "409")
                 => (refund'[r].pc = "moot" /\ refund'[r].calls = 1)
          /\ refund[r].pc = "moot" => refund'[r] = refund[r]]_vars

\* C9 witness: a refund thread ended by a 409 on its first call.
C9_Witness ==
    \E r \in Threads :
        refund[r].pc = "moot" /\ refund[r].calls = 1 /\ refund[r].last = "409"

\* C10: a refund thread ends only after a call that succeeded or was
\* answered 409.
C10_EndsOnlyRefunded ==
    \A r \in Threads : refund[r].pc \in Ended => refund[r].last \in {"ok", "409"}

\* C11: a get_payment call that fails, with a non-2xx status or with a
\* transport failure, leaves payment_uuid, transaction_code, vend_amount and
\* should_cancel as they are and leaves the poll thread at its query, to ask
\* again on its next iteration.
C11_QueryFailureRetries ==
    [][\A t \in Threads :
          (PollQueryHttpError(t) \/ PollQueryCrash(t))
              => (UNCHANGED session /\ poll'[t].pc = "query")]_vars

\* C12: the value start_payment sends is the amount rounded half-up to two
\* places, in minor units: for t thousandths it is (t + 5) div 10, and 301
\* for 3.005.
C12_HalfUpMinorUnits ==
    payment_uuid # None
        => /\ gw[payment_uuid].value = (vend_amount + 5) \div 10
           /\ (vend_amount = 3005 => gw[payment_uuid].value = 301)

\* C12 witness: a payment of 3.005 was opened and 301 was sent.
C12_Witness ==
    payment_uuid # None /\ vend_amount = 3005 /\ gw[payment_uuid].value = 301

\* C13: vend_amount and payment_uuid are set together and cleared together:
\* between two steps of the reader and the poll threads, vend_amount is
\* present exactly when payment_uuid is.
C13_AmountIffPayment == (vend_amount # None) <=> (payment_uuid # None)

\* C14: should_cancel is true only while a payment is outstanding, under
\* every interleaving of 'c,STATUS,IDLE' with a poll thread's clearing; so a
\* payment opened later starts with should_cancel false.
C14_CancelOnlyWhileOutstanding == should_cancel => payment_uuid # None

\* The poll threads that were started and have not returned or been ended.
PollAlive == {t \in Threads : poll[t].pc \in {"query", "store", "match",
                                               "approve", "refund", "clear"}}

\* C15: at most one poll thread is alive in every reachable state, also when
\* 'c,VEND,SUCCESS' clears the session under a polling thread and a new
\* 'c,STATUS,VEND' follows.
C15_OnePollAlive == Cardinality(PollAlive) <= 1

\* C16: 'c,STATUS,VEND,<amount>' with a payment outstanding and <amount> the
\* stored vend_amount makes should_cancel false and mdb_status VEND, leaves
\* payment_uuid, vend_amount and transaction_code as they are, calls no
\* start_payment and starts no poll thread.
C16_SamePriceWithdrawsCancel ==
    [][\A a \in Amounts :
          (StatusVendOutstanding(a) /\ a = vend_amount)
              => /\ ~should_cancel' /\ mdb_status' = "VEND"
                 /\ UNCHANGED << payment_uuid, vend_amount, transaction_code,
                                 created, gw, poll, hist >>]_vars

\* C16 witness: a cancellation was asked for the outstanding payment and has
\* been withdrawn by a line announcing the stored amount again.
C16_Witness ==
    /\ payment_uuid # None /\ payment_uuid \in hist.cancelled
    /\ ~should_cancel /\ mdb_status = "VEND"

\* C20: 'c,STATUS,VEND,<amount>' with a payment outstanding and <amount>
\* different from the stored vend_amount changes mdb_status (to VEND) only:
\* payment_uuid, vend_amount, transaction_code and should_cancel stay, no
\* start_payment is called and no poll thread is started, and the payment
\* keeps its amount at the gateway.
C20_OtherPriceOnlyStatus ==
    [][\A a \in Amounts :
          (StatusVendOutstanding(a) /\ a # vend_amount)
              => /\ mdb_status' = "VEND"
                 /\ UNCHANGED << session, created, gw, poll, hist >>]_vars

\* C20 witness: a cancellation was asked for the outstanding payment, and
\* a line announcing another amount has put the device in VEND since,
\* leaving the cancellation in force.
C20_Witness ==
    /\ payment_uuid # None /\ payment_uuid \in hist.cancelled
    /\ should_cancel /\ mdb_status = "VEND"

\* C17: 'c,ERR,...' writes one reset command (C,0) and leaves payment_uuid,
\* vend_amount, transaction_code, should_cancel and mdb_status as they are;
\* it clears nothing and stops no poll thread and no refund thread.
C17_ErrOnlyResets ==
    [][Err => /\ wire' = [cmd |-> "C,0", amount |-> None]
              /\ UNCHANGED << session, mdb_status, poll, refund >>]_vars

\* C17 witness: the reset command was written while a payment was
\* outstanding, its poll thread at work and a refund thread still calling.
C17_Witness ==
    /\ wire.cmd = "C,0"
    /\ payment_uuid # None /\ transaction_code # None
    /\ \E t \in Threads : poll[t].pc = "match" /\ poll[t].uuid = payment_uuid
    /\ \E r \in Threads : refund[r].pc = "call"

\* C18: a malformed line (no delimiter, or a STATUS or VEND line without its
\* argument) is dropped: the session stays as it is, nothing is written to
\* the device and the reader goes on with the lines that follow.
C18_MalformedDropped ==
    [][(MalformedLine \/ StatusVendNoAmount)
          => (UNCHANGED session /\ wire' = NoLine /\ readerAlive')]_vars

\* C19: transaction_code is set only once the gateway has reported the
\* outstanding payment SUCCESSFUL: while no query for the outstanding payment
\* has been answered SUCCESSFUL, or no payment is outstanding, it is absent.
C19_CodeOnlyAfterSuccess ==
    transaction_code # None
        => /\ payment_uuid # None
           /\ \E t \in Threads :
                 poll[t].uuid = payment_uuid /\ poll[t].status = "SUCCESSFUL"

====
